---- MODULE Spec2Model ----
(***************************************************************************)
(* Layer::CanonicalOrbitals of IQmol: construction of the list of         *)
(* available densities (alpha, beta, total, spin, Mulliken) and the       *)
(* asynchronous first-order density job (GridProduct) it starts and       *)
(* whose completion it handles.                                           *)
(***************************************************************************)
EXTENDS Integers, Sequences, FiniteSets, TLC

\* ------------------------------------------------------------------ bounds
NBasis == 2
MaxUpstream == 2
MaxJobs == 2
MaxPoints == 2

\* binSize(0.1), as the fraction BinSizeNum / BinSizeDen
BinSizeNum == 1
BinSizeDen == 10

Idx == 0..(NBasis - 1)
CoefVals == {0, 1}
OccCounts == 0..(NBasis - 1)

\* ------------------------------------------------------------- variables
VARIABLES
    m_orbitals,            \* the upstream Data::CanonicalOrbitals
    constructed,           \* the constructor has run
    m_availableDensities,  \* QList of Data::Density, in order
    gridStore,             \* the alpha-orbital grids findGrids() returns
    m_gridProduct,         \* 0, or the id of the GridProduct last created
    m_progressDialog,      \* 0, or the id of the QProgressDialog last created
    m_values,              \* the histogram every GridProduct is handed by reference
    valuesRaced,           \* m_values was written by two threads at once: what it
                           \* holds is then indeterminate
    jobs,                  \* the GridProduct objects created so far, by id
    dialogs,               \* the QProgressDialog objects created so far, by id
    connections,           \* the signal/slot connections made so far, in order
    eventQueue,            \* the event loop's queue of slot calls and deferred deletes
    delivered,             \* per job, the notifications its subscribers have received
    qlog,                  \* the last QLOG_ERROR / QLOG_INFO message
    printed,               \* the histogram rows the completion handler last printed
    crashed                \* the process has crashed

densityVars == <<m_orbitals, constructed, m_availableDensities>>
jobVars == <<gridStore, m_gridProduct, m_progressDialog, m_values, valuesRaced, jobs, dialogs,
             connections, eventQueue, delivered, qlog, printed, crashed>>
vars == <<densityVars, jobVars>>

\* ------------------------------------------------------- matrix algebra
RECURSIVE SumTo(_, _)
SumTo(f, n) == IF n = 0 THEN 0 ELSE f[n] + SumTo(f, n - 1)

ZeroMatrix == [p \in Idx \X Idx |-> 0]

\* coeffs(i,j) = source(i,j) for i < rows, j < N
CopyRows(source, rows) == [r \in 1..rows |-> [j \in Idx |-> source[r][j]]]

\* a slip in the product: only the upper triangle (i <= j) is accumulated
ProdTransSelf_UpperOnly(coeffs) ==
    [p \in Idx \X Idx |->
        IF p[1] <= p[2]
        THEN SumTo([r \in 1..Len(coeffs) |-> coeffs[r][p[1]] * coeffs[r][p[2]]], Len(coeffs))
        ELSE 0]

\* prod(trans(coeffs), coeffs)
ProdTransSelf(coeffs) ==
    [p \in Idx \X Idx |->
        SumTo([r \in 1..Len(coeffs) |-> coeffs[r][p[1]] * coeffs[r][p[2]]], Len(coeffs))]

MatAdd(A, B) == [p \in Idx \X Idx |-> A[p] + B[p]]
MatSub(A, B) == [p \in Idx \X Idx |-> A[p] - B[p]]

Density(kind, matrix, label) == [kind |-> kind, matrix |-> matrix, label |-> label]

\* a slip in line 111: the sentinel appended is N - 1
OffsetsWithSentinel_Short(o) == Append(o.basisAtomOffsets, NBasis - 1)

\* offsets.append(N)
OffsetsWithSentinel(o) == Append(o.basisAtomOffsets, NBasis)

\* the loop over atoms zeroing Mull(i,j) for begin <= i,j < end
RECURSIVE ZeroAtomBlocks(_, _, _)
ZeroAtomBlocks(Mull, offsets, atom) ==
    IF atom = 0 THEN Mull
    ELSE LET prev == ZeroAtomBlocks(Mull, offsets, atom - 1)
             begin == offsets[atom]
             end == offsets[atom + 1]
         IN [p \in Idx \X Idx |->
                IF begin <= p[1] /\ p[1] < end /\ begin <= p[2] /\ p[2] < end
                THEN 0 ELSE prev[p]]

Pa(o) == ProdTransSelf(CopyRows(o.alphaCoefficients, o.nAlpha))

\* a slip in line 87: coeffs is not resized to Nb rows, so the alpha rows
\* beyond Nb stay in it
Pb_StaleAlphaRows(o) ==
    ProdTransSelf([r \in 1..o.nAlpha |->
                      IF r <= o.nBeta THEN o.betaCoefficients[r] ELSE o.alphaCoefficients[r]])

Pb(o) == ProdTransSelf(CopyRows(o.betaCoefficients, o.nBeta))

MullikenDiatomicMatrix(o) ==
    ZeroAtomBlocks(MatAdd(Pa(o), Pb(o)), OffsetsWithSentinel(o), Len(o.basisAtomOffsets))

\* a slip in line 127: Pa - Mull instead of Pa + Pb - Mull
MullikenAtomicMatrix_AlphaOnly(o) ==
    MatSub(Pa(o), MullikenDiatomicMatrix(o))

MullikenAtomicMatrix(o) ==
    MatSub(MatAdd(Pa(o), Pb(o)), MullikenDiatomicMatrix(o))

\* a slip in line 104: the spin density built as Pa+Pb
computeDensityVectors_SpinAsSum(o) ==
    << Density("AlphaDensity", Pa(o), "Alpha Density"),
       Density("BetaDensity", Pb(o), "Beta Density"),
       Density("TotalDensity", MatAdd(Pa(o), Pb(o)), "Total Density"),
       Density("SpinDensity", MatAdd(Pa(o), Pb(o)), "Spin Density"),
       Density("MullikenDiatomic", MullikenDiatomicMatrix(o), "Mulliken Diatomic Density"),
       Density("MullikenAtomic", MullikenAtomicMatrix(o), "Mulliken Atomic Density") >>

\* the densities computeDensityVectors appends, in the order it appends them
computeDensityVectors(o) ==
    << Density("AlphaDensity", Pa(o), "Alpha Density"),
       Density("BetaDensity", Pb(o), "Beta Density"),
       Density("TotalDensity", MatAdd(Pa(o), Pb(o)), "Total Density"),
       Density("SpinDensity", MatSub(Pa(o), Pb(o)), "Spin Density"),
       Density("MullikenDiatomic", MullikenDiatomicMatrix(o), "Mulliken Diatomic Density"),
       Density("MullikenAtomic", MullikenAtomicMatrix(o), "Mulliken Atomic Density") >>

\* a slip in the constructor: densityList() appended before computeDensityVectors()
ConstructedDensities_UpstreamFirst(o) ==
    o.densityList
        \o (IF o.orbitalType = "Canonical" THEN computeDensityVectors(o) ELSE << >>)

\* the list the constructor leaves in m_availableDensities
ConstructedDensities(o) ==
    (IF o.orbitalType = "Canonical" THEN computeDensityVectors(o) ELSE << >>)
        \o o.densityList

\* ------------------------------------------------------- upstream inputs
CoefRows == [Idx -> CoefVals]

CoefMatrices == UNION {[1..n -> CoefRows] : n \in OccCounts}

\* basisAtomOffsets(): one first-basis-function index per atom, without sentinel
AtomOffsets ==
    {s \in UNION {[1..n -> 0..NBasis] : n \in 1..(NBasis + 1)} :
        /\ s[1] = 0
        /\ \A k \in 1..(Len(s) - 1) : s[k] <= s[k + 1]}

UpstreamDensity(n) == Density("Custom", ZeroMatrix, n)

\* densityList(): n upstream densities, in any order
UpstreamLists ==
    UNION {{s \in [1..n -> 1..n] : \A a, b \in 1..n : a # b => s[a] # s[b]} :
              n \in 0..MaxUpstream}

\* beta coefficients for a given alpha matrix: the first nb alpha orbitals
\* (restricted) or the same orbitals over the mirrored basis (unrestricted)
Mirror(a) == [r \in 1..Len(a) |-> [j \in Idx |-> a[r][NBasis - 1 - j]]]
BetaMatrices(a) ==
    {[r \in 1..nb |-> c[r]] : nb \in 0..Len(a), c \in {a, Mirror(a)}}

OrbitalTypes == {"Canonical", "Localized"}

Orbitals(t, a, b, off, u) ==
    [orbitalType |-> t, nAlpha |-> Len(a), nBeta |-> Len(b),
     alphaCoefficients |-> a, betaCoefficients |-> b,
     basisAtomOffsets |-> off,
     densityList |-> [k \in 1..Len(u) |-> UpstreamDensity(u[k])]]

\* ------------------------------------------------------------ construction
NoJobs ==
    /\ m_gridProduct = 0
    /\ m_progressDialog = 0
    /\ m_values = << >>
    /\ valuesRaced = FALSE
    /\ jobs = << >>
    /\ dialogs = << >>
    /\ connections = << >>
    /\ eventQueue = << >>
    /\ delivered = << >>
    /\ qlog = "none"
    /\ printed = << >>
    /\ crashed = FALSE

InitBuild ==
    /\ gridStore = << >>
    /\ NoJobs
    /\ \E t \in OrbitalTypes, a \in CoefMatrices, off \in AtomOffsets, u \in UpstreamLists :
         \E b \in BetaMatrices(a) :
            /\ t # "Canonical" => (a = << >> /\ off = <<0>>)
            /\ m_orbitals = Orbitals(t, a, b, off, u)
    /\ constructed = FALSE
    /\ m_availableDensities = << >>

\* the rows the copy loops (76-80, 89-93) read: source(i,j) for i < rows with no
\* check against the size of source, so a row beyond its last one is a read
\* outside the matrix and yields any values
ReadRows(source, rows) ==
    {[r \in 1..rows |-> IF r <= Len(source) THEN source[r] ELSE g[r]] :
        g \in [1..rows -> CoefRows]}

\* the copy loops read outside a coefficient matrix
OutOfRange(o) ==
    /\ o.orbitalType = "Canonical"
    /\ \/ Len(o.alphaCoefficients) < o.nAlpha
       \/ Len(o.betaCoefficients) < o.nBeta

\* the constructor body; after a read outside a matrix the process may have
\* crashed, and then no layer exists
Construct ==
    /\ ~constructed /\ ~crashed
    /\ crashed' \in (IF OutOfRange(m_orbitals) THEN BOOLEAN ELSE {FALSE})
    /\ constructed' = ~crashed'
    /\ \E a \in ReadRows(m_orbitals.alphaCoefficients, m_orbitals.nAlpha),
          b \in ReadRows(m_orbitals.betaCoefficients, m_orbitals.nBeta) :
          m_availableDensities' =
             IF crashed'
             THEN m_availableDensities
             ELSE m_availableDensities \o
                     ConstructedDensities([m_orbitals EXCEPT !.alphaCoefficients = a,
                                                             !.betaCoefficients = b])
    /\ UNCHANGED <<m_orbitals, gridStore, m_gridProduct, m_progressDialog, m_values,
                   valuesRaced, jobs, dialogs, connections, eventQueue, delivered,
                   qlog, printed>>

NextBuild == Construct

SpecBuild == InitBuild /\ [][NextBuild]_vars

\* construction from an orbital set whose beta coefficient matrix does not
\* have the declared nBeta rows
InitShape ==
    /\ gridStore = << >>
    /\ NoJobs
    /\ \E a \in CoefMatrices, b \in CoefMatrices, nb \in OccCounts, off \in AtomOffsets :
          /\ Len(b) # nb /\ Len(off) <= 2
          /\ m_orbitals = [Orbitals("Canonical", a, b, off, << >>) EXCEPT !.nBeta = nb]
    /\ constructed = FALSE
    /\ m_availableDensities = << >>

SpecShape == InitShape /\ [][NextBuild]_vars

\* ------------------------------------------------------ orbital grid store
\* a grid is its values at the sample points 0..P-1; its geometry is its point
\* count: the grid of orbital i over n points is 1 at the first i points, else 0
Grid(i, n) == [p \in 1..n |-> IF p <= i THEN 1 ELSE 0]

\* the store holds grids for the first n orbitals, each with its own point count
GridStores(na) ==
    UNION {{[i \in 1..n |-> Grid(i, len[i])] : len \in [1..n -> 1..MaxPoints]} :
              n \in (na - 1)..(na + 1)}

SameGeometry(grids) == \A a, b \in 1..Len(grids) : Len(grids[a]) = Len(grids[b])

\* findGrids(Data::SurfaceType::AlphaOrbital)
findGrids == gridStore

\* ------------------------------------------------------ Grid Product engine
totalProgress(grids) == IF grids = << >> THEN 0 ELSE Len(grids[1])

\* rho(p) = sum over the grids of value(p)^2, p counted from 0
Rho(grids, p) ==
    SumTo([i \in 1..Len(grids) |-> grids[i][p + 1] * grids[i][p + 1]], Len(grids))

\* floor(rho / binSize)
BinOf(rho) == (rho * BinSizeDen) \div BinSizeNum

\* ++histogram[b], grown to hold index b
Increment(h, b) ==
    LET g == IF Len(h) < b + 1 THEN h \o [k \in 1..(b + 1 - Len(h)) |-> 0] ELSE h
    IN  [g EXCEPT ![b + 1] = @ + 1]

\* the job object new GridProduct(m_values, orbitalGrids, binSize) makes and
\* start() sets going: the engine refuses grids of differing geometry
GridProductStart(grids) ==
    [grids |-> grids,
     P |-> totalProgress(grids),
     processed |-> 0,
     state |-> IF SameGeometry(grids) THEN "Running" ELSE "Rejected"]

Running(j) == jobs[j].state = "Running"
RunningJobs == {j \in 1..Len(jobs) : Running(j)}

\* ------------------------------------------------------------ orchestrator
\* a slip in line 188: the maximum set one short of totalProgress()
NewProgressDialog_MaximumShort(job) ==
    [alive |-> TRUE, shown |-> TRUE, maximum |-> job.P - 1, value |-> -1,
     wasCanceled |-> FALSE, canceledAt |-> -1]

\* new QProgressDialog(); setWindowModality; show(); setMaximum(totalProgress())
NewProgressDialog(job) ==
    [alive |-> TRUE, shown |-> TRUE, maximum |-> job.P, value |-> -1,
     wasCanceled |-> FALSE, canceledAt |-> -1]

\* a slip in lines 190-194: finished() connected to the completion slot twice
NewConnections_FinishedTwice(j, d) ==
    << [sender |-> j, signal |-> "progressValue", receiver |-> d, slot |-> "setValue"],
       [sender |-> j, signal |-> "finished", receiver |-> 0,
        slot |-> "firstOrderDensityMatrixFinished"],
       [sender |-> j, signal |-> "finished", receiver |-> 0,
        slot |-> "firstOrderDensityMatrixFinished"] >>

\* connect(progressValue(int) -> setValue(int)); connect(finished() -> this)
NewConnections(j, d) ==
    << [sender |-> j, signal |-> "progressValue", receiver |-> d, slot |-> "setValue"],
       [sender |-> j, signal |-> "finished", receiver |-> 0,
        slot |-> "firstOrderDensityMatrixFinished"] >>

\* the slot calls a signal of job j queues on the event loop, in connection order
Emit(j, signal, value) ==
    LET cs == SelectSeq(connections, LAMBDA c : c.sender = j /\ c.signal = signal)
    IN  [k \in 1..Len(cs) |->
            [slot |-> cs[k].slot, receiver |-> cs[k].receiver, job |-> j, value |-> value]]

computeFirstOrderDensityMatrix ==
    /\ constructed /\ ~crashed
    /\ LET Na == m_orbitals.nAlpha
           orbitalGrids == findGrids
           j == Len(jobs) + 1
       IN  IF Len(orbitalGrids) # Na
           THEN /\ qlog' = "Not all orbitals available"
                /\ UNCHANGED <<m_gridProduct, m_progressDialog, jobs, dialogs,
                               connections, delivered>>
           ELSE /\ Len(jobs) < MaxJobs
                /\ jobs' = Append(jobs, GridProductStart(orbitalGrids))
                /\ m_gridProduct' = j
                /\ dialogs' = Append(dialogs, NewProgressDialog(jobs'[j]))
                /\ m_progressDialog' = j
                /\ connections' = connections \o NewConnections(j, j)
                /\ delivered' = Append(delivered, << >>)
                /\ qlog' = "Starting grid calc"
    /\ UNCHANGED <<densityVars, gridStore, m_values, valuesRaced, eventQueue, printed,
                   crashed>>

\* the job processes sample point jobs[j].processed and reports its progress;
\* with another job running, both write the one m_values without
\* synchronisation: a data race, after which the process may have crashed and
\* the histogram is indeterminate
GridProductStep(j) ==
    /\ ~crashed /\ Running(j)
    /\ jobs[j].processed < jobs[j].P
    /\ m_values' = Increment(m_values, BinOf(Rho(jobs[j].grids, jobs[j].processed)))
    /\ \/ /\ RunningJobs = {j}
          /\ UNCHANGED <<valuesRaced, crashed>>
       \/ /\ RunningJobs # {j}
          /\ valuesRaced' = TRUE
          /\ crashed' \in BOOLEAN
    /\ jobs' = [jobs EXCEPT ![j].processed = @ + 1]
    /\ eventQueue' = eventQueue \o Emit(j, "progressValue", jobs[j].processed + 1)
    /\ UNCHANGED <<densityVars, gridStore, m_gridProduct, m_progressDialog, dialogs,
                   connections, delivered, qlog, printed>>

\* all P points processed: the job completes
GridProductFinish(j) ==
    /\ ~crashed /\ Running(j)
    /\ jobs[j].processed = jobs[j].P
    /\ jobs' = [jobs EXCEPT ![j].state = "Completed"]
    /\ eventQueue' = eventQueue \o Emit(j, "finished", 0)
    /\ UNCHANGED <<densityVars, gridStore, m_gridProduct, m_progressDialog, m_values,
                   valuesRaced, dialogs, connections, delivered, qlog, printed, crashed>>

\* a sample cannot be read: the job aborts, discards the histogram, emits faulted
GridProductFault(j) ==
    /\ ~crashed /\ Running(j)
    /\ jobs[j].processed < jobs[j].P
    /\ jobs' = [jobs EXCEPT ![j].state = "Faulted"]
    /\ m_values' = << >>
    /\ valuesRaced' = (RunningJobs # {j})
    /\ eventQueue' = eventQueue \o Emit(j, "faulted", 0)
    /\ UNCHANGED <<densityVars, gridStore, m_gridProduct, m_progressDialog,
                   dialogs, connections, delivered, qlog, printed, crashed>>

\* the user presses the dialog's Cancel button: canceled() reaches only the
\* dialog's own cancel() slot
DialogCancel(d) ==
    /\ ~crashed /\ d \in 1..Len(dialogs)
    /\ dialogs[d].alive /\ dialogs[d].shown /\ ~dialogs[d].wasCanceled
    /\ Running(d)
    /\ dialogs' = [dialogs EXCEPT ![d].wasCanceled = TRUE, ![d].shown = FALSE,
                                  ![d].canceledAt = jobs[d].processed]
    /\ eventQueue' = eventQueue \o Emit(d, "canceled", 0)
    /\ UNCHANGED <<densityVars, gridStore, m_gridProduct, m_progressDialog, m_values,
                   valuesRaced, jobs, connections, delivered, qlog, printed, crashed>>

NextEvent(slot) == eventQueue # << >> /\ Head(eventQueue).slot = slot

\* the event loop calls QProgressDialog::setValue(int)
setValue ==
    /\ ~crashed /\ NextEvent("setValue")
    /\ LET e == Head(eventQueue)
       IN  /\ dialogs' = [dialogs EXCEPT ![e.receiver].value = e.value]
           /\ delivered' = [delivered EXCEPT
                               ![e.job] = Append(@, [event |-> "progress", value |-> e.value])]
    /\ eventQueue' = Tail(eventQueue)
    /\ UNCHANGED <<densityVars, gridStore, m_gridProduct, m_progressDialog, m_values,
                   valuesRaced, jobs, connections, qlog, printed, crashed>>

\* a slip in the completion slot: it also appends the finished first-order
\* density to the available-density list
firstOrderDensityMatrixFinished_AppendsDensity ==
    /\ ~crashed /\ NextEvent("firstOrderDensityMatrixFinished")
    /\ LET e == Head(eventQueue)
       IN  delivered' = [delivered EXCEPT
                            ![e.job] = Append(@, [event |-> "finished", value |-> 0])]
    /\ \/ /\ m_progressDialog # 0
          /\ eventQueue' = Append(Tail(eventQueue),
                 [slot |-> "deferredDelete", receiver |-> m_progressDialog,
                  job |-> 0, value |-> 0])
          /\ crashed' \in (IF RunningJobs = {} THEN {FALSE} ELSE BOOLEAN)
       \/ /\ m_progressDialog = 0
          /\ eventQueue' = Tail(eventQueue)
          /\ crashed' \in BOOLEAN
    /\ m_progressDialog' = 0
    /\ printed' = m_values
    /\ m_availableDensities' =
          Append(m_availableDensities,
                 Density("FirstOrderDensity", ZeroMatrix, "First Order Density"))
    /\ UNCHANGED <<m_orbitals, constructed, gridStore, m_gridProduct, m_values,
                   valuesRaced, jobs, dialogs, connections, qlog>>

\* the event loop calls the completion slot
firstOrderDensityMatrixFinished ==
    /\ ~crashed /\ NextEvent("firstOrderDensityMatrixFinished")
    /\ LET e == Head(eventQueue)
       IN  delivered' = [delivered EXCEPT
                            ![e.job] = Append(@, [event |-> "finished", value |-> 0])]
    /\ \/ /\ m_progressDialog # 0
          /\ eventQueue' = Append(Tail(eventQueue),
                 [slot |-> "deferredDelete", receiver |-> m_progressDialog,
                  job |-> 0, value |-> 0])
          /\ crashed' \in (IF RunningJobs = {} THEN {FALSE} ELSE BOOLEAN)
       \/ /\ m_progressDialog = 0
          /\ eventQueue' = Tail(eventQueue)
          /\ crashed' \in BOOLEAN
    /\ m_progressDialog' = 0
    /\ printed' = m_values
    /\ UNCHANGED <<densityVars, gridStore, m_gridProduct, m_values, valuesRaced, jobs,
                   dialogs, connections, qlog>>

\* the event loop deletes a dialog handed to deleteLater()
deferredDelete ==
    /\ ~crashed /\ NextEvent("deferredDelete")
    /\ LET d == Head(eventQueue).receiver
       IN  /\ dialogs' = [dialogs EXCEPT ![d].alive = FALSE, ![d].shown = FALSE]
           /\ connections' = SelectSeq(connections, LAMBDA c : c.receiver # d)
           /\ eventQueue' = SelectSeq(Tail(eventQueue), LAMBDA e : e.receiver # d)
    /\ UNCHANGED <<densityVars, gridStore, m_gridProduct, m_progressDialog, m_values,
                   valuesRaced, jobs, delivered, qlog, printed, crashed>>

\* ---------------------------------------------------------- specification
\* the occupied alpha counts the job specification starts from
AlphaCounts == {2}

IdentityRows(n) == [r \in 1..n |-> [j \in Idx |-> IF j = r - 1 THEN 1 ELSE 0]]

Init ==
    /\ \E na \in AlphaCounts :
          /\ m_orbitals = Orbitals("Canonical", IdentityRows(na), IdentityRows(na),
                                   <<0>>, <<1>>)
          /\ gridStore \in GridStores(na)
    /\ constructed = TRUE
    /\ m_availableDensities = ConstructedDensities(m_orbitals)
    /\ NoJobs

Next ==
    \/ computeFirstOrderDensityMatrix
    \/ \E j \in 1..Len(jobs) : GridProductStep(j)
    \/ \E j \in 1..Len(jobs) : GridProductFinish(j)
    \/ \E j \in 1..Len(jobs) : GridProductFault(j)
    \/ setValue
    \/ firstOrderDensityMatrixFinished
    \/ deferredDelete

Spec == Init /\ [][Next]_vars

\* the same program with a user who may press Cancel on a progress dialog
NextCancel ==
    \/ Next
    \/ \E d \in 1..Len(dialogs) : DialogCancel(d)

SpecCancel == Init /\ [][NextCancel]_vars

\* ================================================================ claims
Kinds(list) == [k \in 1..Len(list) |-> list[k].kind]

ComputedKinds ==
    <<"AlphaDensity", "BetaDensity", "TotalDensity", "SpinDensity",
      "MullikenDiatomic", "MullikenAtomic">>

Canonical == m_orbitals.orbitalType = "Canonical"

\* the matrix of the entry of m_availableDensities with the given kind
DensityOf(kind) ==
    m_availableDensities[CHOOSE k \in 1..Len(m_availableDensities) :
                            m_availableDensities[k].kind = kind].matrix

\* the notifications of job j still waiting on the event loop
Pending(j, slot) == SelectSeq(eventQueue, LAMBDA e : e.job = j /\ e.slot = slot)

Events(j, event) == SelectSeq(delivered[j], LAMBDA n : n.event = event)

\* C1 (as claimed): a request issued while a job is Running is refused: it
\* creates and starts no job, leaves the job reference, the progress
\* subscriber and the histogram as they were; so at most one job is ever Running.
C1_SecondRequestRejected ==
    [][ /\ (computeFirstOrderDensityMatrix /\ RunningJobs # {})
            => /\ UNCHANGED <<jobs, m_gridProduct, m_progressDialog, dialogs, m_values>>
               /\ qlog' # "Starting grid calc"
        /\ Cardinality(RunningJobs') <= 1 ]_vars

\* C2 (as claimed): after construction for a canonical orbital set the list
\* is the upstream densities, in supplied order, then the six computed kinds.
C2_UpstreamThenComputed ==
    (constructed /\ Canonical)
        => /\ Kinds(m_availableDensities) = Kinds(m_orbitals.densityList) \o ComputedKinds
           /\ SubSeq(m_availableDensities, 1, Len(m_orbitals.densityList))
                 = m_orbitals.densityList

\* C2 (amended): after construction for a canonical orbital set the list is
\* the six computed kinds Alpha, Beta, Total, Spin, MullikenDiatomic,
\* MullikenAtomic in that order, then the upstream densities in supplied order.
C2_ComputedThenUpstream ==
    (constructed /\ Canonical)
        => /\ Kinds(m_availableDensities) = ComputedKinds \o Kinds(m_orbitals.densityList)
           /\ SubSeq(m_availableDensities, Len(ComputedKinds) + 1, Len(m_availableDensities))
                 = m_orbitals.densityList

\* C2 witness: a canonical set constructed with two upstream densities
\* supplied in the order 2, 1.
C2_Witness ==
    /\ constructed /\ Canonical
    /\ Len(m_orbitals.densityList) = 2
    /\ m_orbitals.densityList[1].label = 2
    /\ Len(m_availableDensities) = 8

\* C3: per job, subscribers receive progress events and then at most one
\* terminal event, with no progress after it; a job that completed normally
\* has had exactly one completion event emitted (delivered or still queued),
\* and a job that did not complete has none.
C3_NotificationOrder ==
    \A j \in 1..Len(jobs) :
        /\ \A k \in 1..(Len(delivered[j]) - 1) : delivered[j][k].event = "progress"
        /\ Len(Events(j, "finished")) <= 1
        /\ Len(Events(j, "finished")) + Len(Pending(j, "firstOrderDensityMatrixFinished"))
              = (IF jobs[j].state = "Completed" THEN 1 ELSE 0)
        /\ Len(Events(j, "finished")) = 1 => Pending(j, "setValue") = << >>

\* C3 witness: a job over two points whose subscribers have received
\* progress 1, progress 2 and then the completion event.
C3_Witness ==
    \E j \in 1..Len(jobs) :
        /\ jobs[j].P = 2
        /\ Len(delivered[j]) = 3
        /\ delivered[j][3].event = "finished"

\* C4 (as claimed): once cancellation of a running job is requested after
\* k < P points, the job stops short of its P points: it never completes and
\* no completion event fires for it.
C4_CancelStopsJob ==
    \A d \in 1..Len(dialogs) :
        (dialogs[d].wasCanceled /\ dialogs[d].canceledAt < jobs[d].P)
            => /\ jobs[d].state # "Completed"
               /\ Events(d, "finished") = << >>

\* C5: for every valid offsets sequence the Mulliken matrices in the list
\* satisfy diatomic + atomic = total elementwise; with a single atom spanning
\* all N basis functions diatomic is zero and atomic equals total.
C5_MullikenSum ==
    (constructed /\ Canonical)
        => /\ \A p \in Idx \X Idx :
                 DensityOf("MullikenDiatomic")[p] + DensityOf("MullikenAtomic")[p]
                    = DensityOf("TotalDensity")[p]
           /\ Len(m_orbitals.basisAtomOffsets) = 1
                 => /\ DensityOf("MullikenDiatomic") = ZeroMatrix
                    /\ DensityOf("MullikenAtomic") = DensityOf("TotalDensity")

\* C5 witness: a constructed set with an atom of empty range, a non-zero
\* diatomic part and a non-zero atomic part.
C5_Witness ==
    /\ constructed /\ Canonical
    /\ \E k \in 1..Len(m_orbitals.basisAtomOffsets) :
          OffsetsWithSentinel(m_orbitals)[k] = OffsetsWithSentinel(m_orbitals)[k + 1]
    /\ DensityOf("MullikenDiatomic") # ZeroMatrix
    /\ DensityOf("MullikenAtomic") # ZeroMatrix

\* C6 (as claimed): a request that finds the wrong number of alpha grids, or
\* grids of differing geometry, fails before starting: no job and no dialog
\* is created, nothing is connected, and the job reference, the progress
\* subscriber and the histogram stay as they were.
C6_PreconditionFailureCreatesNoJob ==
    [][ (/\ computeFirstOrderDensityMatrix
         /\ (Len(findGrids) # m_orbitals.nAlpha \/ ~SameGeometry(findGrids)))
            => /\ UNCHANGED <<jobs, dialogs, connections, m_gridProduct,
                              m_progressDialog, m_values, delivered>>
               /\ qlog' # "Starting grid calc" ]_vars

\* C7 (as claimed, its safety part): once a job has completed and its
\* completion has been handled, the Orchestrator is Idle again: it holds no
\* job and no progress subscriber.
C7_ReleasedAfterCompletion ==
    \A j \in 1..Len(jobs) :
        (jobs[j].state = "Completed" /\ Events(j, "finished") # << >> /\ ~crashed)
            => (m_gridProduct # j /\ m_progressDialog # j)

\* C8: the progress values a job's subscriber receives never decrease and
\* never exceed P = totalProgress(), which is the subscriber's maximum from
\* the moment the dialog exists, before any progress event.
C8_ProgressMonotoneBounded ==
    \A j \in 1..Len(jobs) :
        /\ dialogs[j].maximum = totalProgress(jobs[j].grids)
        /\ dialogs[j].value <= dialogs[j].maximum
        /\ \A k \in 1..Len(delivered[j]) :
              delivered[j][k].event = "progress"
                 => /\ delivered[j][k].value <= dialogs[j].maximum
                    /\ \A i \in 1..(k - 1) : delivered[j][i].value <= delivered[j][k].value

\* C8 witness: a subscriber that has received progress 1 and then progress 2
\* of a job over two points.
C8_Witness ==
    \E j \in 1..Len(jobs) :
        /\ jobs[j].P = 2
        /\ Len(delivered[j]) >= 2
        /\ delivered[j][1].value = 1
        /\ delivered[j][2].value = 2
        /\ dialogs[j].value = 2

\* C9 (as claimed): the histogram is written by one running job at a time,
\* and the Orchestrator reads it (in the completion handler) only when no
\* job is running.
C9_HistogramHandoff ==
    [][ /\ firstOrderDensityMatrixFinished => RunningJobs = {}
        /\ ~valuesRaced' ]_vars

\* C10 (as claimed): a job that faulted processes no further point, its
\* histogram is discarded, it never completes, the process has not crashed,
\* and a faulted notification has been delivered or is on its way.
C10_FaultReported ==
    \A j \in 1..Len(jobs) :
        jobs[j].state = "Faulted"
            => /\ Events(j, "finished") = << >>
               /\ ~crashed
               /\ \/ Events(j, "faulted") # << >>
                  \/ \E k \in 1..Len(eventQueue) :
                        eventQueue[k].job = j /\ eventQueue[k].slot = "faulted"

\* C11: the TotalDensity entry is the AlphaDensity entry plus the BetaDensity
\* entry, and the SpinDensity entry is the AlphaDensity entry minus the
\* BetaDensity entry, elementwise.
C11_TotalAndSpin ==
    (constructed /\ Canonical)
        => \A p \in Idx \X Idx :
              /\ DensityOf("TotalDensity")[p]
                    = DensityOf("AlphaDensity")[p] + DensityOf("BetaDensity")[p]
              /\ DensityOf("SpinDensity")[p]
                    = DensityOf("AlphaDensity")[p] - DensityOf("BetaDensity")[p]

\* C11 witness: a constructed set whose beta density is neither zero nor
\* equal to its alpha density.
C11_Witness ==
    /\ constructed /\ Canonical
    /\ DensityOf("BetaDensity") # ZeroMatrix
    /\ DensityOf("BetaDensity") # DensityOf("AlphaDensity")
    /\ DensityOf("SpinDensity") # ZeroMatrix

\* C14: a spin channel with no occupied rows has the all-zero NxN density;
\* with Nb = 0 the total and the spin densities both equal the alpha density.
C14_EmptyChannel ==
    (constructed /\ Canonical)
        => /\ m_orbitals.nAlpha = 0 => DensityOf("AlphaDensity") = ZeroMatrix
           /\ m_orbitals.nBeta = 0
                 => /\ DensityOf("BetaDensity") = ZeroMatrix
                    /\ DensityOf("TotalDensity") = DensityOf("AlphaDensity")
                    /\ DensityOf("SpinDensity") = DensityOf("AlphaDensity")

\* C14 witness: a constructed set with occupied alpha orbitals, a non-zero
\* alpha density and no beta orbital.
C14_Witness ==
    /\ constructed /\ Canonical
    /\ m_orbitals.nAlpha > 0 /\ m_orbitals.nBeta = 0
    /\ DensityOf("AlphaDensity") # ZeroMatrix

\* C15: every computed density matrix in the list (alpha, beta, and with
\* them total, spin and both Mulliken matrices) is symmetric.
C15_Symmetric ==
    (constructed /\ Canonical)
        => \A k \in 1..Len(ComputedKinds) : \A i, j \in Idx :
              DensityOf(ComputedKinds[k])[<<i, j>>] = DensityOf(ComputedKinds[k])[<<j, i>>]

\* C15 witness: a constructed set whose alpha density has a non-zero
\* off-diagonal element.
C15_Witness ==
    /\ constructed /\ Canonical
    /\ \E i, j \in Idx : i # j /\ DensityOf("AlphaDensity")[<<i, j>>] # 0

\* basis functions i and j lie in the range of one atom, the last range ending at N
SameAtom(i, j) ==
    LET off == m_orbitals.basisAtomOffsets \o <<NBasis>>
    IN  \E k \in 1..Len(m_orbitals.basisAtomOffsets) :
           /\ off[k] <= i /\ i < off[k + 1]
           /\ off[k] <= j /\ j < off[k + 1]

\* C16: MullikenDiatomic[i][j] is 0 when i and j lie in one atom's range and
\* Total[i][j] otherwise; MullikenAtomic[i][j] is Total[i][j] when they lie in
\* one atom's range and 0 otherwise.
C16_BlockStructure ==
    (constructed /\ Canonical)
        => \A i, j \in Idx :
              /\ DensityOf("MullikenDiatomic")[<<i, j>>]
                    = (IF SameAtom(i, j) THEN 0 ELSE DensityOf("TotalDensity")[<<i, j>>])
              /\ DensityOf("MullikenAtomic")[<<i, j>>]
                    = (IF SameAtom(i, j) THEN DensityOf("TotalDensity")[<<i, j>>] ELSE 0)

\* C16 witness: a constructed set of two atoms with one basis function each
\* and a total density that is non-zero on and off the atoms' blocks.
C16_Witness ==
    /\ constructed /\ Canonical
    /\ \E i, j \in Idx : ~SameAtom(i, j) /\ DensityOf("MullikenDiatomic")[<<i, j>>] # 0
    /\ \E i \in Idx : DensityOf("MullikenAtomic")[<<i, i>>] # 0

\* C13: when the beta coefficient matrix does not have the declared nBeta
\* rows, construction does not crash, no beta density is built from that
\* matrix, and the alpha density is computed and kept in the list.
C13_DimensionMismatch ==
    (Canonical /\ Len(m_orbitals.betaCoefficients) # m_orbitals.nBeta
               /\ (constructed \/ crashed))
        => /\ ~crashed
           /\ \A k \in 1..Len(m_availableDensities) :
                 m_availableDensities[k].kind # "BetaDensity"
           /\ \E k \in 1..Len(m_availableDensities) :
                 /\ m_availableDensities[k].kind = "AlphaDensity"
                 /\ m_availableDensities[k].matrix = Pa(m_orbitals)

\* the number of the first k sample points of the grids whose rho falls in bin b
PointsInBin(grids, k, b) ==
    Cardinality({p \in 0..(k - 1) : BinOf(Rho(grids, p)) = b})

\* h counts the first k sample points of the grids bin by bin
CountsPoints(h, grids, k) ==
    /\ \A b \in 0..(Len(h) - 1) : h[b + 1] = PointsInBin(grids, k, b)
    /\ SumTo(h, Len(h)) = k

\* C12 (as claimed): after a job has processed k points the histogram holds,
\* bin by bin, the counts of those k points and sums to k; when the job
\* completes it holds the counts of all its P points and sums to P.
C12_HistogramCounts ==
    [][ \A j \in 1..Len(jobs) :
           /\ jobs'[j].processed # jobs[j].processed
                 => /\ ~valuesRaced'
                    /\ CountsPoints(m_values', jobs[j].grids, jobs'[j].processed)
           /\ (jobs[j].state = "Running" /\ jobs'[j].state = "Completed")
                 => /\ ~valuesRaced'
                    /\ CountsPoints(m_values', jobs[j].grids, jobs[j].P) ]_vars

\* C17 (as claimed): whenever the completion handler runs, m_progressDialog
\* is not null and is the dialog made for the job whose finished
\* notification is being handled.
C17_HandlerOwnsDialog ==
    [][ firstOrderDensityMatrixFinished
           => /\ m_progressDialog # 0
              /\ m_progressDialog = Head(eventQueue).job ]_vars

\* C18: requests (accepted or refused), progress events and job completion
\* leave the available-density list exactly as construction left it.
C18_ListFixed == [][m_availableDensities' = m_availableDensities]_vars

\* C18 witness: a job has been requested, has delivered progress, has
\* completed and been handled, and the list is the constructed one.
C18_Witness ==
    /\ \E j \in 1..Len(jobs) :
          /\ Events(j, "progress") # << >>
          /\ Events(j, "finished") # << >>
          /\ jobs[j].state = "Completed"
    /\ m_progressDialog = 0
    /\ Len(m_availableDensities) = Len(ComputedKinds) + Len(m_orbitals.densityList)
    /\ m_availableDensities = ConstructedDensities(m_orbitals)

====
